---- MODULE Spec2Model ----
(***************************************************************************)
(* The supply-chain dashboard's API client (frontend/src/services/api.js)  *)
(* and the panels that call it, as a state machine.  The backend is the    *)
(* environment: it answers every request in flight with a response (or the *)
(* network fails).                                                         *)
(*                                                                         *)
(* JavaScript values are tagged records.  Numbers are integers or NaN.     *)
(* Objects are functions from property names to values: the insertion      *)
(* order of properties is not kept, and JSON text lists an object's        *)
(* members in the order of KeyOrder.                                       *)
(***************************************************************************)
EXTENDS Integers, Sequences, FiniteSets, TLC

VARIABLES
  pending,   \* the calls whose fetch is in flight and whose caller awaits it
  last,      \* the call the latest step settled, if it settled one
  tab,       \* App.activeTab: the mounted panel
  orphans,   \* the fetches in flight whose panel has been unmounted
  ui,        \* the mounted panel's result, loading and error state
  form,      \* the mounted panel's input state
  app,       \* App's apiStatus and loading, and the health checks it started
  hist,      \* what has happened to the mounted panel since its last submit
  boundary   \* the state of the ErrorBoundary around the panel

vars == <<pending, last, tab, orphans, ui, form, app, hist, boundary>>

\* ------------------------------------------------------------- bounds

\* Members of a generated response object.
MaxFields == 2
\* Entries of a generated 422 detail array.
MaxDetail == 2
\* Fetches of unmounted panels in flight.
MaxOrphans == 1
\* The ids of the locations and suppliers that get removed.
MaxId == 2
\* Rows of a supplier list that still takes an added row.
MaxRows == 3
\* Health checks of App in flight at once.
MaxChecks == 2

\* ------------------------------------------------------ JavaScript values

undefined == [t |-> "undefined"]
null == [t |-> "null"]
NaN == [t |-> "NaN"]
Num(n) == [t |-> "number", n |-> n]
Str(s) == [t |-> "string", s |-> s]
Bool(b) == [t |-> "boolean", b |-> b]
Arr(e) == [t |-> "array", e |-> e]
Obj(f) == [t |-> "object", f |-> f]
EmptyObj == Obj(<<>>)

\* v === null || v === undefined, the test of ?? and ?.
Nullish(v) == v.t \in {"undefined", "null"}

\* ToBoolean, the test of ||, && and ?:
Truthy(v) ==
  CASE v.t \in {"undefined", "null", "NaN"} -> FALSE
    [] v.t = "number" -> v.n # 0
    [] v.t = "string" -> v.s # ""
    [] v.t = "boolean" -> v.b
    [] OTHER -> TRUE

\* a || b
Or(a, b) == IF Truthy(a) THEN a ELSE b

\* a ?? b
Coalesce(a, b) == IF Nullish(a) THEN b ELSE a

IsArray(v) == v.t = "array"

\* String.prototype.includes
Includes(s, sub) ==
  \E i \in 1..(Len(s) - Len(sub) + 1) : SubSeq(s, i, i + Len(sub) - 1) = sub

\* The own enumerable properties of a value, as object spread copies them:
\* an object's members, an array's elements and a string's characters under
\* their indices, nothing for any other value.
Own(v) ==
  CASE v.t = "object" -> v.f
    [] v.t = "array" ->
         [k \in {ToString(i - 1) : i \in 1..Len(v.e)} |->
            v.e[CHOOSE i \in 1..Len(v.e) : ToString(i - 1) = k]]
    [] v.t = "string" ->
         [k \in {ToString(i - 1) : i \in 1..Len(v.s)} |->
            Str(LET i == CHOOSE j \in 1..Len(v.s) : ToString(j - 1) = k
                IN SubSeq(v.s, i, i))]
    [] OTHER -> <<>>

\* v.k on a value that is neither null nor undefined.
Get(v, k) ==
  IF v.t = "array" /\ k = "length" THEN Num(Len(v.e))
  ELSE IF v.t = "string" /\ k = "length" THEN Num(Len(v.s))
  ELSE IF k \in DOMAIN Own(v) THEN Own(v)[k] ELSE undefined

\* v?.k
GetOpt(v, k) == IF Nullish(v) THEN undefined ELSE Get(v, k)

RECURSIVE JoinStr(_, _)
JoinStr(strs, sep) ==
  IF Len(strs) = 0 THEN ""
  ELSE IF Len(strs) = 1 THEN strs[1]
  ELSE strs[1] \o sep \o JoinStr(Tail(strs), sep)

\* ToString, as a template literal and new Error(message) apply it.
RECURSIVE ToStr(_)
ToStr(v) ==
  CASE v.t = "undefined" -> "undefined"
    [] v.t = "null" -> "null"
    [] v.t = "NaN" -> "NaN"
    [] v.t = "number" -> ToString(v.n)
    [] v.t = "string" -> v.s
    [] v.t = "boolean" -> IF v.b THEN "true" ELSE "false"
    [] v.t = "array" ->
         JoinStr([i \in 1..Len(v.e) |->
                    IF Nullish(v.e[i]) THEN "" ELSE ToStr(v.e[i])], ",")
    [] OTHER -> "[object Object]"

\* Array.prototype.join
Join(arr, sep) ==
  JoinStr([i \in 1..Len(arr.e) |->
             IF Nullish(arr.e[i]) THEN "" ELSE ToStr(arr.e[i])], sep)

\* ------------------------------------------------------------- outcomes

\* An Error object: status and data are undefined unless request sets them.
Err(name, message) ==
  [name |-> name, message |-> message, status |-> undefined, data |-> undefined]

Return(v) == [kind |-> "return", value |-> v]
Throw(e) == [kind |-> "throw", error |-> e]

\* The TypeError of reading property k of null or undefined.
CannotRead(v, k) ==
  Err("TypeError",
      "Cannot read properties of " \o ToStr(v) \o " (reading '" \o k \o "')")

\* ----------------------------------------------------------------- JSON

\* Every property name of the model, in the order JSON text lists them.
KeyOrder ==
  <<"detail", "message", "loc", "msg", "type", "code",
    "depot", "customers", "algorithm", "locations",
    "lat", "lon", "demand", "name", "id", "supplier_name",
    "lead_time", "cost", "past_orders",
    "annual_demand", "unit_cost", "demand_std", "lead_time_days",
    "delivery_time", "quantity", "delay_time",
    "reliability_score", "confidence_interval", "lower", "upper",
    "feature_importance", "model", "r2_score", "prediction_time",
    "forecast", "confidence_intervals", "metrics", "steps",
    "delayed", "status", "confidence", "probability_delayed",
    "probability_ontime", "risk_level", "input",
    "optimal_order_quantity", "economic_order_quantity", "reorder_point",
    "total_cost", "total_annual_cost", "average_inventory",
    "number_of_orders", "service_level", "cost_breakdown",
    "recommendations", "safety_stock",
    "routes", "vehicle_id", "total_distance", "total_demand", "statistics",
    "num_vehicles", "avg_distance_per_route", "optimization_time",
    "results", "total", "successful", "failed",
    "models", "total_models", "loaded_models", "config", "reloaded">>

\* The text JSON.stringify gives a value other than undefined: NaN becomes
\* null, an undefined member is left out, an undefined element becomes null.
\* The strings of the model hold no character that JSON escapes.
RECURSIVE JSONText(_)
JSONText(v) ==
  CASE v.t \in {"null", "NaN", "undefined"} -> "null"
    [] v.t = "number" -> ToString(v.n)
    [] v.t = "string" -> "\"" \o v.s \o "\""
    [] v.t = "boolean" -> IF v.b THEN "true" ELSE "false"
    [] v.t = "array" ->
         "[" \o JoinStr([i \in 1..Len(v.e) |-> JSONText(v.e[i])], ",") \o "]"
    [] OTHER ->
         LET ks == SelectSeq(KeyOrder,
                             LAMBDA k : k \in DOMAIN v.f /\ v.f[k] # undefined)
         IN "{" \o JoinStr([i \in 1..Len(ks) |->
                              "\"" \o ks[i] \o "\":" \o JSONText(v.f[ks[i]])], ",")
                \o "}"

\* JSON.stringify(v): a string, or undefined for undefined.
JSONstringify(v) == IF v = undefined THEN undefined ELSE Str(JSONText(v))

IsDigit(c) == \E d \in 0..9 : ToString(d) = c

RECURSIVE LeadingDigits(_)
LeadingDigits(s) ==
  IF Len(s) = 0 \/ ~IsDigit(SubSeq(s, 1, 1)) THEN ""
  ELSE SubSeq(s, 1, 1) \o LeadingDigits(SubSeq(s, 2, Len(s)))

RECURSIVE DecValue(_)
DecValue(ds) ==
  IF Len(ds) = 0 THEN 0
  ELSE 10 * DecValue(SubSeq(ds, 1, Len(ds) - 1))
       + (CHOOSE d \in 0..9 : ToString(d) = SubSeq(ds, Len(ds), Len(ds)))

\* parseFloat on the integers of the model: the number itself, or the
\* longest decimal prefix of the argument's string, or NaN.
parseFloat(v) ==
  IF v.t = "number" THEN v
  ELSE LET s == ToStr(v)
           neg == Len(s) > 0 /\ SubSeq(s, 1, 1) = "-"
           ds == LeadingDigits(IF neg THEN SubSeq(s, 2, Len(s)) ELSE s)
       IN IF Len(ds) = 0 THEN NaN
          ELSE Num(IF neg THEN 0 - DecValue(ds) ELSE DecValue(ds))

\* ------------------------------------------------- the backend's answers

Methods ==
  {"getHealth", "getDetailedHealth", "predictSupplier", "forecastInventory",
   "predictShipment", "optimizeInventory", "optimizeRouting",
   "batchEvaluateSuppliers", "getModelsInfo", "reloadModels"}

\* The members of a response that each method, or the caller of its result,
\* reads.
ResultKeys(m) ==
  CASE m \in {"getHealth", "getDetailedHealth"} -> {"status", "models", "config"}
    [] m = "predictSupplier" ->
         {"reliability_score", "confidence_interval", "feature_importance",
          "model", "r2_score", "prediction_time"}
    [] m = "forecastInventory" ->
         {"forecast", "confidence_intervals", "metrics", "model", "steps"}
    [] m = "predictShipment" ->
         {"delayed", "status", "confidence", "probability_delayed",
          "probability_ontime", "risk_level", "feature_importance", "input",
          "model"}
    [] m = "optimizeInventory" ->
         {"optimal_order_quantity", "reorder_point", "total_cost",
          "cost_breakdown", "recommendations", "safety_stock",
          "economic_order_quantity", "total_annual_cost", "average_inventory"}
    [] m = "optimizeRouting" ->
         {"routes", "statistics", "algorithm", "optimization_time"}
    [] m = "batchEvaluateSuppliers" ->
         {"results", "total", "successful", "failed"}
    [] m = "getModelsInfo" -> {"models", "total_models", "status"}
    [] OTHER -> {"status", "message", "reloaded"}

SampleLocation ==
  Obj([lat |-> Num(40), lon |-> Num(-74), name |-> Str("Stop"), demand |-> Num(100)])

SampleRoutes ==
  {Obj([vehicle_id |-> Num(1), locations |-> Arr(<<SampleLocation>>),
        total_distance |-> Num(12), total_demand |-> Num(100)]),
   Obj([vehicle_id |-> null, locations |-> null]),
   Obj([locations |-> Arr(<<Obj([lat |-> Num(40)])>>)]),
   Obj([locations |-> Arr(<<null>>)]),
   EmptyObj,
   null}

\* The values a generated response gives a member: null, a value of the
\* documented type, and for some members a falsy value or one of another type.
Samples(k) ==
  CASE k \in {"forecast", "recommendations", "results", "reloaded",
              "confidence_intervals"} ->
         {null, Arr(<<Num(1)>>), Str("none")}
    [] k = "routes" ->
         {null, Str("none"), Arr(<<>>)} \cup {Arr(<<r>>) : r \in SampleRoutes}
    [] k = "statistics" -> {null, Obj([num_vehicles |-> Num(2)])}
    [] k = "models" -> {null, Obj([loaded_models |-> Arr(<<Str("supplier")>>)])}
    [] k \in {"confidence_interval", "feature_importance", "metrics",
              "cost_breakdown", "input", "config"} ->
         {null, Obj([cost |-> Num(1)])}
    [] k \in {"model", "status"} -> {null, Str(""), Str("ok")}
    [] k \in {"risk_level", "prediction_time", "algorithm",
              "optimization_time", "message"} ->
         {null, Str("ok")}
    [] k = "delayed" -> {null, Bool(FALSE)}
    [] k \in {"reliability_score", "total"} -> {null, Num(0), Num(3)}
    [] OTHER -> {null, Num(3)}

\* The member sets of the objects with at most n of the keys ks.
RECURSIVE Members(_, _)
Members(ks, n) ==
  IF ks = {} \/ n = 0 THEN {<<>>}
  ELSE LET k == CHOOSE x \in ks : TRUE
       IN Members(ks \ {k}, n)
          \cup {(k :> v) @@ f : v \in Samples(k), f \in Members(ks \ {k}, n - 1)}

\* A response with every member the dashboard shows.
FullDoc(m) ==
  CASE m = "optimizeInventory" ->
         Obj([economic_order_quantity |-> Num(3), reorder_point |-> Num(3),
              safety_stock |-> Num(3), total_annual_cost |-> Num(3),
              average_inventory |-> Num(3), number_of_orders |-> Num(3),
              service_level |-> Num(1)])
    [] m = "optimizeRouting" ->
         Obj([routes |-> Arr(<<CHOOSE r \in SampleRoutes :
                                  Get(r, "vehicle_id") = Num(1)>>),
              statistics |-> Obj([num_vehicles |-> Num(1),
                                  total_distance |-> Num(12),
                                  avg_distance_per_route |-> Num(12)]),
              algorithm |-> Str("clarke_wright")])
    [] m = "getDetailedHealth" ->
         Obj([status |-> Str("healthy"),
              models |-> Obj([loaded_models |-> Arr(<<Str("supplier")>>)])])
    [] OTHER -> EmptyObj

\* The JSON documents a method is answered with when the answer is ok: an
\* object of up to n sampled members, the full one, or no object at all.
OkDocs(m, n) ==
  {Obj(f) : f \in Members(ResultKeys(m), n)}
  \cup {FullDoc(m), null, Str("ok")}

\* The entries of a 422 detail array.
DetailEntries ==
  {Obj([loc |-> Arr(<<Str("body"), Str("cost")>>), msg |-> Str("field required"),
        type |-> Str("missing")]),
   Obj([loc |-> Arr(<<Str("body"), Num(0)>>)]),
   Obj([msg |-> Str("invalid")]),
   Obj([loc |-> Arr(<<>>), msg |-> Str("invalid")]),
   Obj([loc |-> Str("body"), msg |-> Str("invalid")]),
   null}

RECURSIVE SeqsUpTo(_, _)
SeqsUpTo(S, n) ==
  IF n = 0 THEN {<<>>}
  ELSE SeqsUpTo(S, n - 1)
       \cup {Append(q, x) : q \in {r \in SeqsUpTo(S, n - 1) : Len(r) = n - 1}, x \in S}

\* The JSON documents an answer that is not ok carries.
ErrorDocs ==
  {Obj([detail |-> Arr(q)]) : q \in SeqsUpTo(DetailEntries, MaxDetail)}
  \cup {Obj([detail |-> Str("Not found")]),
        Obj([detail |-> Str("Failed to fetch")]),
        Obj([detail |-> Str("No map data")]),
        Obj([detail |-> Obj([code |-> Num(7)])]),
        Obj([detail |-> null, message |-> Str("Server exploded")]),
        Obj([message |-> Str("Server exploded")]),
        EmptyObj, null, Str("oops")}

AllDocs == ErrorDocs \cup UNION {OkDocs(m, MaxFields) : m \in Methods}

\* Every document of the model with its text.
DocTexts == {<<JSONText(d), d>> : d \in AllDocs}

\* JSON.parse(text): the document the text is the JSON of, or a SyntaxError.
JSONparse(text) ==
  IF \E p \in DocTexts : p[1] = text
  THEN [ok |-> TRUE, doc |-> (CHOOSE p \in DocTexts : p[1] = text)[2]]
  ELSE [ok |-> FALSE, doc |-> undefined]

Response(status, contentType, text) ==
  [kind |-> "response", status |-> status, contentType |-> contentType,
   text |-> text, readFails |-> FALSE]

\* The message of the TypeError fetch rejects with, by browser.
NetworkMessages ==
  {"Failed to fetch", "NetworkError when attempting to fetch resource."}

\* How the fetch of a call of method m can settle: an ok JSON answer, a JSON
\* error answer, an answer of another or no content type, a JSON answer whose
\* body is no JSON text, a body that cannot be read, and no answer at all.
Responses(m, n) ==
  {Response(200, Str("application/json"), JSONText(d)) : d \in OkDocs(m, n)}
  \cup {Response(st, Str("application/json"), JSONText(d)) :
          st \in {404, 422, 500}, d \in ErrorDocs}
  \cup {Response(st, ct, text) :
          st \in {200, 500},
          ct \in {null, Str("text/html"), Str("application/json; charset=utf-8")},
          text \in {"", "Internal Server Error", "{}"}}
  \cup {[Response(st, ct, "") EXCEPT !.readFails = TRUE] :
          st \in {200, 500}, ct \in {null, Str("application/json")}}
  \cup {[kind |-> "network", message |-> msg] : msg \in NetworkMessages}

\* ------------------------------------------------------ APIService.request

baseURL == "http://localhost:8000"

\* What fetch is called with: the URL and the config built from the options.
\* fetch issues a GET when the config names no method.
Fetch(endpoint, options) ==
  [url |-> baseURL \o endpoint,
   method |-> IF "method" \in DOMAIN options THEN options.method ELSE "GET",
   body |-> IF "body" \in DOMAIN options THEN options.body ELSE undefined,
   contentType |-> "application/json"]

\* response.ok of the Fetch API.
ResponseOk(resp) == resp.status \in 200..299

\* ParseBody without the test of the content type, which C2 must tell from
\* ParseBody: every body is parsed as JSON.
ParseBodyAlwaysJSON(resp) ==
  IF resp.readFails THEN Obj([message |-> Str("Invalid response format")])
  ELSE IF resp.text # "" THEN
         IF JSONparse(resp.text).ok THEN JSONparse(resp.text).doc
         ELSE Obj([message |-> Str("Invalid response format")])
       ELSE EmptyObj

\* The data request reads from a response.
ParseBody(resp) ==
  IF resp.readFails THEN Obj([message |-> Str("Invalid response format")])
  ELSE IF Truthy(resp.contentType)
          /\ Includes(resp.contentType.s, "application/json")
       THEN IF resp.text # "" THEN
              IF JSONparse(resp.text).ok THEN JSONparse(resp.text).doc
              ELSE Obj([message |-> Str("Invalid response format")])
            ELSE EmptyObj
       ELSE Obj([message |-> Str(resp.text)])

\* The Error request throws for a response that is not ok.
HttpError(errorMsg, status, data) ==
  [name |-> "Error", message |-> ToStr(errorMsg),
   status |-> Num(status), data |-> data]

\* One entry of a 422 detail array, as the message shows it.
DetailEntry(err) ==
  LET loc == Get(err, "loc")
      at == IF Nullish(loc) THEN undefined ELSE Str(Join(loc, "."))
  IN ToStr(Or(at, Str("field"))) \o ": " \o ToStr(Get(err, "msg"))

\* The entries of a detail array that make the map over it throw: a null
\* entry has no loc to read, and a loc that is no array has no join.
DetailEntryThrows(err) ==
  \/ Nullish(err)
  \/ ~Nullish(Get(err, "loc")) /\ ~IsArray(Get(err, "loc"))

DetailEntryError(err) ==
  IF Nullish(err) THEN CannotRead(err, "loc")
  ELSE Err("TypeError", "err.loc?.join is not a function")

\* What request throws for a response that is not ok.
ErrorOf(status, data) ==
  IF Nullish(data) THEN Throw(CannotRead(data, "detail"))
  ELSE
    LET detail == Get(data, "detail")
        errorMsg ==
          Or(Or(detail, Get(data, "message")),
             Str("HTTP " \o ToString(status) \o ": Request failed"))
    IN IF status = 422 /\ Truthy(detail) /\ IsArray(detail)
       THEN LET bad == {i \in 1..Len(detail.e) : DetailEntryThrows(detail.e[i])}
            IN IF bad # {}
               THEN Throw(DetailEntryError(
                      detail.e[CHOOSE i \in bad : \A j \in bad : i <= j]))
               ELSE Throw(HttpError(
                      Str(JoinStr([i \in 1..Len(detail.e) |->
                                     DetailEntry(detail.e[i])], ", ")),
                      status, data))
       ELSE Throw(HttpError(errorMsg, status, data))

\* The outer catch of request: a fetch that failed with 'Failed to fetch'
\* gets the message that names the backend; every error is thrown again.
Rethrow(error) ==
  IF error.message = "Failed to fetch"
  THEN [error EXCEPT !.message =
          "Cannot connect to backend at " \o baseURL \o ". Is the server running?"]
  ELSE error

\* request's outcome when its fetch settles with resp: a response, or the
\* rejection of fetch (a TypeError with the browser's message).
request(resp) ==
  LET out ==
        IF resp.kind = "network" THEN Throw(Err("TypeError", resp.message))
        ELSE LET data == ParseBody(resp)
             IN IF ResponseOk(resp) THEN Return(data)
                ELSE ErrorOf(resp.status, data)
  IN IF out.kind = "throw" THEN Throw(Rethrow(out.error)) ELSE out

\* ------------------------------------------------- the methods of APIService

\* A catch that throws the error on as it is, which C4 must tell from Catch.
CatchUnprefixed(prefix, out) == out

\* try { ... } catch (error) { throw new Error(`<prefix>${error.message}`) }
Catch(prefix, out) ==
  IF out.kind = "throw"
  THEN Throw(Err("Error", prefix \o out.error.message))
  ELSE out

NoOptions == <<>>

PostJSON(data) == [method |-> "POST", body |-> JSONstringify(data)]

getHealthFetch == Fetch("/", NoOptions)

getHealth(r) == Catch("Health check failed: ", r)

getDetailedHealthFetch == Fetch("/health", NoOptions)

getDetailedHealth(r) == Catch("Detailed health check failed: ", r)

predictSupplierFetch(data) == Fetch("/api/v1/predict/supplier", PostJSON(data))

\* predictSupplier with the response spread before the defaults, which C5
\* must tell from predictSupplier: a null of the response is replaced.
predictSupplierDefaultsLast(data, r) ==
  LET result == r.value
  IN Catch("Supplier prediction failed: ",
       IF r.kind = "throw" THEN r
       ELSE IF Nullish(result) THEN Throw(CannotRead(result, "reliability_score"))
       ELSE Return(Obj(
              [reliability_score |-> Coalesce(Get(result, "reliability_score"), Num(0)),
               confidence_interval |->
                 Or(Get(result, "confidence_interval"),
                    Obj([lower |-> Num(0), upper |-> Num(0)])),
               feature_importance |-> Or(Get(result, "feature_importance"), EmptyObj),
               model |-> Or(Get(result, "model"), Str("LinearRegression")),
               r2_score |-> Coalesce(Get(result, "r2_score"), null),
               prediction_time |-> Or(Get(result, "prediction_time"), Str("<1ms"))]
              @@ Own(result))))

predictSupplier(data, r) ==
  LET result == r.value
  IN Catch("Supplier prediction failed: ",
       IF r.kind = "throw" THEN r
       ELSE IF Nullish(result) THEN Throw(CannotRead(result, "reliability_score"))
       ELSE Return(Obj(Own(result) @@
              [reliability_score |-> Coalesce(Get(result, "reliability_score"), Num(0)),
               confidence_interval |->
                 Or(Get(result, "confidence_interval"),
                    Obj([lower |-> Num(0), upper |-> Num(0)])),
               feature_importance |-> Or(Get(result, "feature_importance"), EmptyObj),
               model |-> Or(Get(result, "model"), Str("LinearRegression")),
               r2_score |-> Coalesce(Get(result, "r2_score"), null),
               prediction_time |-> Or(Get(result, "prediction_time"), Str("<1ms"))])))

forecastInventoryFetch(steps, confidenceLevel) ==
  Fetch("/api/v1/predict/inventory?steps=" \o ToStr(steps)
          \o "&confidence_level=" \o ToStr(confidenceLevel),
        NoOptions)

forecastInventory(steps, confidenceLevel, r) ==
  LET result == r.value
  IN Catch("Inventory forecast failed: ",
       IF r.kind = "throw" THEN r
       ELSE IF Nullish(result) THEN Throw(CannotRead(result, "forecast"))
       ELSE Return(Obj(Own(result) @@
              [forecast |-> IF IsArray(Get(result, "forecast"))
                            THEN Get(result, "forecast") ELSE Arr(<<>>),
               confidence_intervals |->
                 Or(Get(result, "confidence_intervals"), Arr(<<>>)),
               metrics |-> Or(Get(result, "metrics"), EmptyObj),
               model |-> Or(Get(result, "model"), Str("ARIMA")),
               steps |-> Or(Get(result, "steps"), steps)])))

predictShipmentFetch(data) == Fetch("/api/v1/predict/shipment", PostJSON(data))

predictShipment(data, r) ==
  LET result == r.value
  IN Catch("Shipment prediction failed: ",
       IF r.kind = "throw" THEN r
       ELSE IF Nullish(result) THEN Throw(CannotRead(result, "delayed"))
       ELSE Return(Obj(Own(result) @@
              [delayed |-> Coalesce(Get(result, "delayed"), null),
               status |-> Or(Get(result, "status"), Str("Unknown")),
               confidence |-> Coalesce(Get(result, "confidence"), Num(0)),
               probability_delayed |->
                 Coalesce(Get(result, "probability_delayed"), Num(0)),
               probability_ontime |->
                 Coalesce(Get(result, "probability_ontime"), Num(0)),
               risk_level |-> Or(Get(result, "risk_level"), Str("Unknown")),
               feature_importance |-> Or(Get(result, "feature_importance"), EmptyObj),
               input |-> Or(Get(result, "input"), data),
               model |-> Or(Get(result, "model"), Str("LogisticRegression"))])))

optimizeInventoryFetch(data) == Fetch("/api/v1/optimize/inventory", PostJSON(data))

optimizeInventory(data, r) ==
  LET result == r.value
  IN Catch("Inventory optimization failed: ",
       IF r.kind = "throw" THEN r
       ELSE IF Nullish(result)
            THEN Throw(CannotRead(result, "optimal_order_quantity"))
       ELSE Return(Obj(Own(result) @@
              [optimal_order_quantity |->
                 Coalesce(Get(result, "optimal_order_quantity"), Num(0)),
               reorder_point |-> Coalesce(Get(result, "reorder_point"), Num(0)),
               total_cost |-> Coalesce(Get(result, "total_cost"), Num(0)),
               cost_breakdown |-> Or(Get(result, "cost_breakdown"), EmptyObj),
               recommendations |->
                 IF IsArray(Get(result, "recommendations"))
                 THEN Get(result, "recommendations") ELSE Arr(<<>>),
               safety_stock |-> Coalesce(Get(result, "safety_stock"), Num(0))])))

\* The payload optimizeRouting builds from its argument, or the TypeError of
\* reading a member of a null argument or customer.
fixedData(data) ==
  IF Nullish(data) THEN Throw(CannotRead(data, "locations"))
  ELSE
    LET locations == Get(data, "locations")
        customers == Get(data, "customers")
        depot == Get(data, "depot")
        fixLocations == Truthy(locations) /\ IsArray(locations)
        fixCustomers == Truthy(customers) /\ IsArray(customers)
        fixedLocations ==
          IF fixLocations
          THEN [locations |->
                  Arr([i \in 1..Len(locations.e) |->
                         LET loc == locations.e[i]
                         IN IF IsArray(loc)
                            THEN Obj([lat |-> Get(loc, "0"), lon |-> Get(loc, "1")])
                            ELSE loc])]
          ELSE <<>>
        fixedCustomers ==
          IF fixCustomers
          THEN [customers |->
                  Arr([i \in 1..Len(customers.e) |->
                         LET customer == customers.e[i]
                         IN Obj([lat |-> parseFloat(Get(customer, "lat")),
                                 lon |-> parseFloat(Get(customer, "lon")),
                                 demand |-> parseFloat(Or(Get(customer, "demand"), Num(0))),
                                 name |-> Or(Get(customer, "name"),
                                             Str("Customer " \o ToString(i)))])])]
          ELSE <<>>
        fixedDepot ==
          IF Truthy(depot)
          THEN [depot |-> Obj([lat |-> parseFloat(Get(depot, "lat")),
                               lon |-> parseFloat(Get(depot, "lon")),
                               name |-> Or(Get(depot, "name"), Str("Depot"))])]
          ELSE <<>>
    IN IF fixCustomers /\ \E i \in 1..Len(customers.e) : Nullish(customers.e[i])
       THEN Throw(CannotRead(
              customers.e[CHOOSE i \in 1..Len(customers.e) :
                            /\ Nullish(customers.e[i])
                            /\ \A j \in 1..(i - 1) : ~Nullish(customers.e[j])],
              "lat"))
       ELSE Return(Obj(fixedDepot @@ fixedCustomers @@ fixedLocations @@ Own(data)))

\* The catch of optimizeRouting.
CatchRouting(out) ==
  IF out.kind = "throw"
  THEN IF Includes(out.error.message, "map")
       THEN Throw(Err("Error",
              "Server returned invalid route data. Please check backend response format."))
       ELSE Throw(Err("Error", "Route optimization failed: " \o out.error.message))
  ELSE out

\* optimizeRouting sending its argument as it is, which C8 must tell from
\* optimizeRoutingFetch.
optimizeRoutingFetchRaw(data) ==
  IF fixedData(data).kind = "throw" THEN <<>>
  ELSE <<Fetch("/api/v1/optimize/routing", PostJSON(data))>>

\* The fetches optimizeRouting issues: none when building the payload throws.
optimizeRoutingFetch(data) ==
  IF fixedData(data).kind = "throw" THEN <<>>
  ELSE <<Fetch("/api/v1/optimize/routing", PostJSON(fixedData(data).value))>>

validatedLocation(loc) ==
  Obj([lat |-> Coalesce(Get(loc, "lat"), Num(0)),
       lon |-> Coalesce(Get(loc, "lon"), Num(0)),
       name |-> Or(Get(loc, "name"), Str("Location")),
       demand |-> Coalesce(Get(loc, "demand"), Num(0))])

\* The locations of a route that are mapped: those of an array.
MappedLocations(route) ==
  LET locations == Get(route, "locations")
  IN IF Truthy(locations) /\ IsArray(locations) THEN locations.e ELSE <<>>

\* A route of the response whose validation throws: it is null, or one of
\* its locations is.
RouteThrows(route) ==
  \/ Nullish(route)
  \/ \E i \in 1..Len(MappedLocations(route)) : Nullish(MappedLocations(route)[i])

RouteError(route) ==
  IF Nullish(route) THEN CannotRead(route, "locations")
  ELSE CannotRead(
         MappedLocations(route)[CHOOSE i \in 1..Len(MappedLocations(route)) :
              /\ Nullish(MappedLocations(route)[i])
              /\ \A j \in 1..(i - 1) : ~Nullish(MappedLocations(route)[j])],
         "lat")

\* index counts from 0.
validatedRoute(route, index) ==
  Obj(Own(route) @@
      [vehicle_id |-> Coalesce(Get(route, "vehicle_id"), Num(index)),
       locations |-> Arr([i \in 1..Len(MappedLocations(route)) |->
                            validatedLocation(MappedLocations(route)[i])]),
       total_distance |-> Coalesce(Get(route, "total_distance"), Num(0)),
       total_demand |-> Coalesce(Get(route, "total_demand"), Num(0))])

\* What optimizeRouting returns for the result of request.  The result is
\* first given an empty routes array when it has none, which throws in the
\* strict mode of a module when the result is a string; the answers of the
\* model hold no array, number or boolean at top level.
RoutingResult(data, result) ==
  IF Nullish(result) THEN Throw(CannotRead(result, "routes"))
  ELSE
    LET noRoutes == ~Truthy(Get(result, "routes")) \/ ~IsArray(Get(result, "routes"))
        fixed == IF noRoutes THEN Obj(("routes" :> Arr(<<>>)) @@ Own(result))
                 ELSE result
        routes == Get(fixed, "routes").e
        bad == {i \in 1..Len(routes) : RouteThrows(routes[i])}
        validatedRoutes ==
          Arr([i \in 1..Len(routes) |-> validatedRoute(routes[i], i - 1)])
        statistics == Get(fixed, "statistics")
    IN IF noRoutes /\ result.t # "object"
       THEN Throw(Err("TypeError",
                      "Cannot create property 'routes' on " \o result.t
                        \o " '" \o ToStr(result) \o "'"))
       ELSE IF bad # {}
       THEN Throw(RouteError(routes[CHOOSE i \in bad : \A j \in bad : i <= j]))
       ELSE Return(Obj(Own(fixed) @@
              [routes |-> validatedRoutes,
               statistics |->
                 Obj(Own(statistics) @@
                     [num_vehicles |->
                        Coalesce(GetOpt(statistics, "num_vehicles"),
                                 Num(Len(validatedRoutes.e))),
                      total_distance |->
                        Coalesce(GetOpt(statistics, "total_distance"), Num(0)),
                      avg_distance_per_route |->
                        Coalesce(GetOpt(statistics, "avg_distance_per_route"), Num(0))]),
               algorithm |-> Or(Or(Get(fixed, "algorithm"), Get(data, "algorithm")),
                                Str("clarke_wright")),
               optimization_time |-> Or(Get(fixed, "optimization_time"), Str("<1ms"))]))

\* optimizeRouting for a payload that was sent.
optimizeRouting(data, r) ==
  CatchRouting(IF r.kind = "throw" THEN r ELSE RoutingResult(data, r.value))

\* optimizeRouting when building the payload throws.
optimizeRoutingUnsent(data) == CatchRouting(fixedData(data))

\* batchEvaluateSuppliers without its check of the argument, which C13 must
\* tell from batchEvaluateSuppliersFetch.
batchEvaluateSuppliersFetchUnchecked(suppliers) ==
  <<Fetch("/api/v1/batch/suppliers", PostJSON(suppliers))>>

\* The fetches batchEvaluateSuppliers issues: none for an argument that is
\* no array.
batchEvaluateSuppliersFetch(suppliers) ==
  IF ~IsArray(suppliers) THEN <<>>
  ELSE <<Fetch("/api/v1/batch/suppliers", PostJSON(suppliers))>>

\* batchEvaluateSuppliers for an argument that is no array.
batchEvaluateSuppliersUnsent(suppliers) ==
  Catch("Batch supplier evaluation failed: ",
        Throw(Err("Error", "Suppliers must be an array")))

batchEvaluateSuppliers(suppliers, r) ==
  LET result == r.value
  IN Catch("Batch supplier evaluation failed: ",
       IF r.kind = "throw" THEN r
       ELSE IF Nullish(result) THEN Throw(CannotRead(result, "results"))
       ELSE Return(Obj(Own(result) @@
              [results |-> IF IsArray(Get(result, "results"))
                           THEN Get(result, "results") ELSE Arr(<<>>),
               total |-> Coalesce(Get(result, "total"), Get(suppliers, "length")),
               successful |-> Coalesce(Get(result, "successful"), Num(0)),
               failed |-> Coalesce(Get(result, "failed"), Num(0))])))

getModelsInfoFetch == Fetch("/api/v1/models/info", NoOptions)

getModelsInfo(r) ==
  LET result == r.value
  IN Catch("Failed to get models info: ",
       IF r.kind = "throw" THEN r
       ELSE IF Nullish(result) THEN Throw(CannotRead(result, "models"))
       ELSE Return(Obj(Own(result) @@
              [models |-> Or(Get(result, "models"), EmptyObj),
               total_models |-> Coalesce(Get(result, "total_models"), Num(0)),
               status |-> Or(Get(result, "status"), Str("unknown"))])))

reloadModelsFetch == Fetch("/api/v1/models/reload", [method |-> "POST"])

reloadModels(r) ==
  LET result == r.value
  IN Catch("Failed to reload models: ",
       IF r.kind = "throw" THEN r
       ELSE IF Nullish(result) THEN Throw(CannotRead(result, "status"))
       ELSE Return(Obj(Own(result) @@
              [status |-> Or(Get(result, "status"), Str("unknown")),
               message |-> Or(Get(result, "message"), Str("Models reloaded")),
               reloaded |-> Or(Get(result, "reloaded"), Arr(<<>>))])))

\* ------------------------------------------------------ calls of the client

\* The form data the panels start with.
SupplierForm ==
  Obj([lead_time |-> Num(7), cost |-> Num(50), past_orders |-> Num(100)])

InventoryForm ==
  Obj([annual_demand |-> Num(10000), unit_cost |-> Num(25),
       demand_std |-> Num(500), lead_time_days |-> Num(7)])

ShipmentForm ==
  Obj([delivery_time |-> Num(10), quantity |-> Num(500), delay_time |-> Num(2)])

\* The customers-based Vehicle Router's depot and first customer, and the
\* locations-based one's first locations, with their coordinates rounded.
RouterDepot == Obj([lat |-> Num(40), lon |-> Num(-74), name |-> Str("Warehouse")])

RouterCustomer ==
  Obj([lat |-> Num(40), lon |-> Num(-73), demand |-> Num(100),
       name |-> Str("Customer 1")])

RouterLocation == Obj([lat |-> Num(40), lon |-> Num(-74), name |-> Str("New York")])

SampleSupplier ==
  Obj([supplier_name |-> Str("Supplier A"), lead_time |-> Num(5),
       cost |-> Num(45), past_orders |-> Num(150)])

\* The arguments a caller other than a panel passes to optimizeRouting: the
\* panels' payloads, and payloads the method is written to repair.
RoutingArgs ==
  {Obj([depot |-> RouterDepot, customers |-> Arr(<<RouterCustomer>>),
        algorithm |-> Str("nearest_neighbor")]),
   Obj([depot |-> Obj([lat |-> Str("40"), lon |-> Str("-74")]),
        customers |-> Arr(<<Obj([lat |-> Str("40"), lon |-> Str("")])>>)]),
   Obj([locations |-> Arr(<<RouterLocation>>)]),
   Obj([locations |-> Arr(<<Arr(<<Num(40), Num(-74)>>)>>)]),
   Obj([customers |-> Arr(<<null>>)]),
   EmptyObj}

\* The argument lists of the calls of method m.
Args(m) ==
  CASE m = "predictSupplier" -> {<<SupplierForm>>, <<EmptyObj>>}
    [] m = "forecastInventory" -> {<<Num(5), Num(1)>>, <<Num(0), Num(1)>>}
    [] m = "predictShipment" -> {<<ShipmentForm>>}
    [] m = "optimizeInventory" -> {<<InventoryForm>>}
    [] m = "optimizeRouting" -> {<<a>> : a \in RoutingArgs}
    [] m = "batchEvaluateSuppliers" ->
         {<<Arr(<<>>)>>, <<Arr(<<SampleSupplier>>)>>, <<null>>, <<EmptyObj>>}
    [] OTHER -> {<<>>}

\* The fetches a call of method m issues before it awaits: one, or none.
ApiFetch(m, args) ==
  CASE m = "getHealth" -> <<getHealthFetch>>
    [] m = "getDetailedHealth" -> <<getDetailedHealthFetch>>
    [] m = "predictSupplier" -> <<predictSupplierFetch(args[1])>>
    [] m = "forecastInventory" -> <<forecastInventoryFetch(args[1], args[2])>>
    [] m = "predictShipment" -> <<predictShipmentFetch(args[1])>>
    [] m = "optimizeInventory" -> <<optimizeInventoryFetch(args[1])>>
    [] m = "optimizeRouting" -> optimizeRoutingFetch(args[1])
    [] m = "batchEvaluateSuppliers" -> batchEvaluateSuppliersFetch(args[1])
    [] m = "getModelsInfo" -> <<getModelsInfoFetch>>
    [] OTHER -> <<reloadModelsFetch>>

\* The outcome of a call of method m whose request has the outcome r.
ApiSettle(m, args, r) ==
  CASE m = "getHealth" -> getHealth(r)
    [] m = "getDetailedHealth" -> getDetailedHealth(r)
    [] m = "predictSupplier" -> predictSupplier(args[1], r)
    [] m = "forecastInventory" -> forecastInventory(args[1], args[2], r)
    [] m = "predictShipment" -> predictShipment(args[1], r)
    [] m = "optimizeInventory" -> optimizeInventory(args[1], r)
    [] m = "optimizeRouting" -> optimizeRouting(args[1], r)
    [] m = "batchEvaluateSuppliers" -> batchEvaluateSuppliers(args[1], r)
    [] m = "getModelsInfo" -> getModelsInfo(r)
    [] OTHER -> reloadModels(r)

\* The outcome of a call that issues no fetch.
ApiUnsent(m, args) ==
  IF m = "optimizeRouting" THEN optimizeRoutingUnsent(args[1])
  ELSE batchEvaluateSuppliersUnsent(args[1])

\* A call: the method, its arguments and the fetches it issues.
Call(m, args) == [method |-> m, args |-> args, sent |-> ApiFetch(m, args)]

\* The calls of a caller other than a panel.
DirectCalls == UNION {{Call(m, args) : args \in Args(m)} : m \in Methods}

NoCall == [method |-> "none"]
NoResponse == [kind |-> "none"]

\* A settled call: req is the outcome of request, out that of the method.
Settled(owner, c, resp, req, out) ==
  [owner |-> owner, method |-> c.method, args |-> c.args, sent |-> c.sent,
   resp |-> resp, req |-> req, out |-> out]

\* useState of App: the status is 'checking' and the loading screen is shown.
InitialApp ==
  [apiStatus |-> Obj([status |-> Str("checking"), models |-> Arr(<<>>)]),
   loading |-> TRUE,
   checks |-> 1]

\* A health check of App in flight; seq counts the checks App started since
\* none was in flight.
HealthCheck(seq) ==
  [owner |-> "app", seq |-> seq, call |-> Call("getDetailedHealth", <<>>)]

\* Nothing has happened to a panel that was just mounted.
NoHist == [afterReset |-> FALSE]

\* The constructor of ErrorBoundary; also its state while App renders no
\* ErrorBoundary.
NoError == [hasError |-> FALSE, error |-> null]

\* App is mounted and its effect has started the first health check; no
\* panel is mounted behind the loading screen.
Init ==
  /\ pending = {HealthCheck(1)}
  /\ last = NoCall
  /\ tab = "dashboard"
  /\ orphans = 0
  /\ ui = [result |-> null, loading |-> FALSE, error |-> null]
  /\ form = <<>>
  /\ app = InitialApp
  /\ hist = NoHist
  /\ boundary = NoError

\* A caller other than a panel calls a method and awaits it; it has one call
\* in flight at a time.
DirectCall(c) ==
  /\ \A p \in pending : p.owner # "direct"
  /\ c.sent # <<>>
  /\ pending' = pending \cup {[owner |-> "direct", call |-> c]}
  /\ last' = NoCall
  /\ UNCHANGED <<tab, orphans, ui, form, app, hist, boundary>>

\* The call throws before it issues a fetch.
DirectCallUnsent(c) ==
  /\ \A p \in pending : p.owner # "direct"
  /\ c.sent = <<>>
  /\ last' = Settled("direct", c, NoResponse, NoResponse,
                     ApiUnsent(c.method, c.args))
  /\ UNCHANGED <<pending, tab, orphans, ui, form, app, hist, boundary>>

\* The fetch of the caller's call settles.
DirectSettle(p, resp) ==
  /\ p \in pending
  /\ p.owner = "direct"
  /\ pending' = pending \ {p}
  /\ \E r \in {request(resp)} :
       last' = Settled("direct", p.call, resp, r,
                       ApiSettle(p.call.method, p.call.args, r))
  /\ UNCHANGED <<tab, orphans, ui, form, app, hist, boundary>>

NextApi ==
  \/ \E c \in DirectCalls : DirectCall(c)
  \/ \E c \in DirectCalls : DirectCallUnsent(c)
  \/ \E p \in {q \in pending : q.owner = "direct"} :
       \E resp \in Responses(p.call.method, MaxFields) : DirectSettle(p, resp)

SpecApi == Init /\ [][NextApi]_vars

\* ------------------------------------------------------------ the panels

\* The panels App mounts under its tabs.  Two Vehicle Routers are in the
\* repository, one that sends locations ("routing") and one that sends a
\* depot and customers ("customerRouting"); the model mounts either.
Panels ==
  {"dashboard", "supplier", "inventory", "shipment", "routing",
   "customerRouting", "batch"}

\* useState(null), useState(false), useState(null) of every panel.
InitialUi == [result |-> null, loading |-> FALSE, error |-> null]

\* The locations the locations-based router starts with.
RouterLocations ==
  <<Obj([id |-> Num(1), lat |-> Num(40), lon |-> Num(-74), name |-> Str("New York")]),
    Obj([id |-> Num(2), lat |-> Num(34), lon |-> Num(-118), name |-> Str("Los Angeles")]),
    Obj([id |-> Num(3), lat |-> Num(41), lon |-> Num(-87), name |-> Str("Chicago")])>>

\* The customers the customers-based router starts with.
RouterCustomers ==
  <<RouterCustomer,
    Obj([lat |-> Num(40), lon |-> Num(-73), demand |-> Num(150),
         name |-> Str("Customer 2")]),
    Obj([lat |-> Num(40), lon |-> Num(-73), demand |-> Num(200),
         name |-> Str("Customer 3")])>>

\* The suppliers loadSampleData sets.
SampleData ==
  <<Obj([id |-> Num(1), name |-> Str("Supplier A"), lead_time |-> Num(5),
         cost |-> Num(45), past_orders |-> Num(150)]),
    Obj([id |-> Num(2), name |-> Str("Supplier B"), lead_time |-> Num(10),
         cost |-> Num(55), past_orders |-> Num(80)]),
    Obj([id |-> Num(3), name |-> Str("Supplier C"), lead_time |-> Num(7),
         cost |-> Num(50), past_orders |-> Num(120)]),
    Obj([id |-> Num(4), name |-> Str("Supplier D"), lead_time |-> Num(15),
         cost |-> Num(40), past_orders |-> Num(60)])>>

\* The input state a panel is mounted with.
InitialForm(t) ==
  CASE t = "supplier" -> [formData |-> SupplierForm]
    [] t = "inventory" -> [formData |-> InventoryForm]
    [] t = "shipment" -> [formData |-> ShipmentForm]
    [] t = "routing" -> [locations |-> Arr(RouterLocations)]
    [] t = "customerRouting" ->
         [depot |-> RouterDepot, customers |-> Arr(RouterCustomers),
          algorithm |-> Str("clarke_wright")]
    [] t = "batch" -> [suppliers |-> Arr(<<>>)]
    [] OTHER -> <<>>

\* The method each panel calls.
PanelMethod(t) ==
  CASE t = "supplier" -> "predictSupplier"
    [] t = "inventory" -> "optimizeInventory"
    [] t = "shipment" -> "predictShipment"
    [] t = "batch" -> "batchEvaluateSuppliers"
    [] OTHER -> "optimizeRouting"

\* What a panel types into a number input: nothing, or digits.
Typed == {"", "5"}

\* The input each form panel's edits go to.
EditedField(t) ==
  CASE t = "supplier" -> "lead_time"
    [] t = "inventory" -> "annual_demand"
    [] OTHER -> "delivery_time"

\* How the fetch of a panel's call settles: the ok answers of Responses
\* that are sampled member by member left out, and one answer of each kind
\* that is not ok.
PanelResponses(m) ==
  {Response(200, Str("application/json"), JSONText(d)) : d \in OkDocs(m, 0)}
  \cup {Response(404, Str("application/json"),
                 JSONText(Obj([detail |-> Str("Not found")]))),
        Response(422, Str("application/json"),
                 JSONText(Obj([detail |->
                   Arr(<<CHOOSE e \in DetailEntries : Get(e, "type") = Str("missing")>>)]))),
        Response(500, Str("text/html"), "Internal Server Error"),
        Response(500, Str("application/json"), JSONText(null)),
        [kind |-> "network", message |-> "Failed to fetch"]}

\* Mounted without the connection error of App, which C20 must tell from
\* Mounted.
MountedWhileOffline == ~app.loading /\ ~boundary.hasError

\* App renders the panel of the active tab unless it shows its loading
\* screen or, with the status 'offline', its connection error; the
\* ErrorBoundary renders it unless it has caught an error.
Mounted ==
  /\ ~app.loading
  /\ Get(app.apiStatus, "status") # Str("offline")
  /\ ~boundary.hasError

\* handleChange of the Supplier Predictor, the Inventory Optimizer and the
\* Shipment Predictor.
handleChange(name, value) ==
  /\ Mounted
  /\ tab \in {"supplier", "inventory", "shipment"}
  /\ form' = [formData |->
                Obj((name :> Or(parseFloat(Str(value)), Num(0))) @@ form.formData.f)]
  /\ last' = NoCall
  /\ UNCHANGED <<pending, tab, orphans, ui, app, hist, boundary>>

\* StartCall with the submit button enabled while loading, which C12 and
\* C14 must tell from StartCall.
StartCallWhileLoading(m, args, clearsResult) ==
  /\ Mounted
  /\ ui' = [result |-> IF clearsResult THEN null ELSE ui.result,
            loading |-> TRUE, error |-> null]
  /\ pending' = pending \cup {[owner |-> "panel", call |-> Call(m, args)]}
  /\ last' = NoCall
  /\ hist' = NoHist
  /\ UNCHANGED <<tab, orphans, form, app, boundary>>

\* A handler starts its call: setLoading(true), setError(null), and the
\* call's fetch is in flight.  The submit button is disabled while loading.
StartCall(m, args, clearsResult) ==
  /\ Mounted
  /\ ~ui.loading
  /\ ui' = [result |-> IF clearsResult THEN null ELSE ui.result,
            loading |-> TRUE, error |-> null]
  /\ pending' = pending \cup {[owner |-> "panel", call |-> Call(m, args)]}
  /\ last' = NoCall
  /\ hist' = NoHist
  /\ UNCHANGED <<tab, orphans, form, app, boundary>>

\* handleSubmit of the Supplier Predictor without its setResult(null), which
\* C17 must tell from SupplierSubmit.
SupplierSubmitKeepsResult ==
  /\ tab = "supplier"
  /\ StartCall("predictSupplier", <<form.formData>>, FALSE)

\* handleSubmit of the Supplier Predictor, up to its await; it also clears
\* the result.
SupplierSubmit ==
  /\ tab = "supplier"
  /\ StartCall("predictSupplier", <<form.formData>>, TRUE)

\* handleSubmit of the Inventory Optimizer, up to its await.
InventorySubmit ==
  /\ tab = "inventory"
  /\ StartCall("optimizeInventory", <<form.formData>>, FALSE)

\* handleSubmit of the Shipment Predictor, up to its await.
ShipmentSubmit ==
  /\ tab = "shipment"
  /\ StartCall("predictShipment", <<form.formData>>, FALSE)

\* removeLocation of the locations-based router.
removeLocation(id) ==
  /\ Mounted
  /\ tab = "routing"
  /\ form' = [locations |->
                Arr(SelectSeq(form.locations.e, LAMBDA loc : Get(loc, "id") # Num(id)))]
  /\ last' = NoCall
  /\ UNCHANGED <<pending, tab, orphans, ui, app, hist, boundary>>

\* The payload the locations-based router builds.
routeData(locations) ==
  Obj([locations |->
         Arr([i \in 1..Len(locations.e) |->
                Obj([lat |-> Get(locations.e[i], "lat"),
                     lon |-> Get(locations.e[i], "lon"),
                     name |-> Get(locations.e[i], "name")])])])

\* handleOptimize of the locations-based router, up to its await; its
\* button is disabled with fewer than two locations.
RoutingOptimize ==
  /\ Mounted
  /\ tab = "routing"
  /\ Len(form.locations.e) >= 2
  /\ StartCall("optimizeRouting", <<routeData(form.locations)>>, FALSE)

\* handleRemoveCustomer of the customers-based router; index counts from 0.
handleRemoveCustomer(index) ==
  /\ Mounted
  /\ tab = "customerRouting"
  /\ index < Len(form.customers.e)
  /\ form' = [form EXCEPT !.customers =
                Arr([i \in 1..(Len(form.customers.e) - 1) |->
                       form.customers.e[IF i <= index THEN i ELSE i + 1]])]
  /\ ui' = [ui EXCEPT !.result = null]
  /\ last' = NoCall
  /\ UNCHANGED <<pending, tab, orphans, app, hist, boundary>>

\* handleDepotChange of the customers-based router: the input's text is
\* stored as it is.
handleDepotChange(field, value) ==
  /\ Mounted
  /\ tab = "customerRouting"
  /\ form' = [form EXCEPT !.depot = Obj((field :> Str(value)) @@ form.depot.f)]
  /\ ui' = [ui EXCEPT !.result = null]
  /\ last' = NoCall
  /\ UNCHANGED <<pending, tab, orphans, app, hist, boundary>>

\* setAlgorithm, from the select of the customers-based router.
setAlgorithm(value) ==
  /\ Mounted
  /\ tab = "customerRouting"
  /\ form.algorithm # Str(value)
  /\ form' = [form EXCEPT !.algorithm = Str(value)]
  /\ last' = NoCall
  /\ UNCHANGED <<pending, tab, orphans, ui, app, hist, boundary>>

\* The payload the customers-based router builds.
routingData(depot, customers, algorithm) ==
  Obj([depot |-> Obj([lat |-> parseFloat(Get(depot, "lat")),
                      lon |-> parseFloat(Get(depot, "lon")),
                      name |-> Get(depot, "name")]),
       customers |->
         Arr([i \in 1..Len(customers.e) |->
                Obj([lat |-> parseFloat(Get(customers.e[i], "lat")),
                     lon |-> parseFloat(Get(customers.e[i], "lon")),
                     demand |-> parseFloat(Get(customers.e[i], "demand")),
                     name |-> Get(customers.e[i], "name")])]),
       algorithm |-> algorithm])

\* handleOptimize of the customers-based router, up to its await; its
\* button is disabled without customers.
CustomerRoutingOptimize ==
  /\ Mounted
  /\ tab = "customerRouting"
  /\ Len(form.customers.e) > 0
  /\ StartCall("optimizeRouting",
               <<routingData(form.depot, form.customers, form.algorithm)>>, FALSE)

\* loadSampleData of the Batch Processor.
loadSampleData ==
  /\ Mounted
  /\ tab = "batch"
  /\ form' = [suppliers |-> Arr(SampleData)]
  /\ last' = NoCall
  /\ UNCHANGED <<pending, tab, orphans, ui, app, hist, boundary>>

\* removeSupplier of the Batch Processor.
removeSupplier(id) ==
  /\ Mounted
  /\ tab = "batch"
  /\ form' = [suppliers |->
                Arr(SelectSeq(form.suppliers.e, LAMBDA x : Get(x, "id") # Num(id)))]
  /\ last' = NoCall
  /\ UNCHANGED <<pending, tab, orphans, ui, app, hist, boundary>>

\* The payload the Batch Processor builds: each supplier without its id and
\* with its name as supplier_name.
\* parseInt on the integers of the model.
parseInt(v) == parseFloat(v)

\* What Date.now() gives when a row is added.
Clock == {5}

\* The Add form with its lead time cleared (the sample rows carry parsed
\* numbers), its name empty as first shown or typed.
NewSuppliers ==
  {Obj([name |-> Str(name), lead_time |-> Str(""), cost |-> Num(50),
        past_orders |-> Num(100)]) : name \in {"", "New"}}

addSupplier(newSupplier, now) ==
  /\ Mounted
  /\ tab = "batch"
  /\ Truthy(Get(newSupplier, "name"))
  /\ Len(form.suppliers.e) < MaxRows
  /\ form' = [suppliers |->
                Arr(Append(form.suppliers.e,
                  Obj([id |-> Num(now),
                       name |-> Get(newSupplier, "name"),
                       lead_time |-> parseFloat(Get(newSupplier, "lead_time")),
                       cost |-> parseFloat(Get(newSupplier, "cost")),
                       past_orders |-> parseInt(Get(newSupplier, "past_orders"))])))]
  /\ last' = NoCall
  /\ UNCHANGED <<pending, tab, orphans, ui, app, hist, boundary>>

\* A map that renames name and forgets to drop id.
suppliersDataKeepsId(suppliers) ==
  Arr([i \in 1..Len(suppliers.e) |->
         LET x == suppliers.e[i].f
             rest == [k \in DOMAIN x \ {"name"} |-> x[k]]
         IN Obj(("supplier_name" :> Get(suppliers.e[i], "name")) @@ rest)])

suppliersData(suppliers) ==
  Arr([i \in 1..Len(suppliers.e) |->
         LET x == suppliers.e[i].f
             rest == [k \in DOMAIN x \ {"id", "name"} |-> x[k]]
         IN Obj(("supplier_name" :> Get(suppliers.e[i], "name")) @@ rest)])

\* handleBatchProcess of the Batch Processor, up to its await; its button is
\* disabled without suppliers.
BatchProcess ==
  /\ Mounted
  /\ tab = "batch"
  /\ Len(form.suppliers.e) > 0
  /\ StartCall("batchEvaluateSuppliers", <<suppliersData(form.suppliers)>>, FALSE)

\* What a panel's catch stores: setError(err.message), and in the
\* customers-based router setError(err.message || 'Failed to optimize routes').
ErrorShown(t, error) ==
  IF t = "customerRouting"
  THEN Or(Str(error.message), Str("Failed to optimize routes"))
  ELSE Str(error.message)

\* The members of the result the Inventory Optimizer calls toLocaleString on.
Dereferenced ==
  {"economic_order_quantity", "reorder_point", "safety_stock",
   "total_annual_cost", "average_inventory"}

\* Rendering the Inventory Optimizer throws: the result is shown and a
\* member it calls toLocaleString on is null or undefined.
InventoryRenderThrows(u) ==
  /\ Truthy(u.result)
  /\ ~u.loading
  /\ \E k \in Dereferenced : Nullish(Get(u.result, k))

\* The members of Dereferenced in the order the render reads them.
RenderOrder ==
  <<"economic_order_quantity", "reorder_point", "safety_stock",
    "total_annual_cost", "average_inventory">>

\* Rendering the panel of tab t with the state u throws.  The render of the
\* Inventory Optimizer is modelled; those of the other panels are taken
\* not to throw.
RenderThrows(t, u) == t = "inventory" /\ InventoryRenderThrows(u)

\* The error a throwing render of the Inventory Optimizer throws: the
\* TypeError of the first member that is null or undefined.
RenderError(u) ==
  LET i == CHOOSE j \in 1..Len(RenderOrder) :
             /\ Nullish(Get(u.result, RenderOrder[j]))
             /\ \A k \in 1..(j - 1) : ~Nullish(Get(u.result, RenderOrder[k]))
  IN CannotRead(Get(u.result, RenderOrder[i]), "toLocaleString")

\* getDerivedStateFromError of ErrorBoundary, when the render of the panel
\* of tab t with the state u throws; its state as it is when it does not.
Caught(t, u) ==
  IF RenderThrows(t, u) THEN [hasError |-> TRUE, error |-> RenderError(u)]
  ELSE boundary

\* PanelSettle without the finally of the handler when the method threw,
\* which C14 must tell from PanelSettle.
PanelSettleNoFinally(p, resp) ==
  /\ p \in pending
  /\ p.owner = "panel"
  /\ pending' = pending \ {p}
  /\ \E r \in {request(resp)} :
       \E out \in {IF p.call.sent = <<>> THEN ApiUnsent(p.call.method, p.call.args)
                   ELSE ApiSettle(p.call.method, p.call.args, r)} :
         /\ last' = Settled("panel", p.call, resp, r, out)
         /\ ui' = IF out.kind = "return"
                  THEN [ui EXCEPT !.result = out.value, !.loading = FALSE]
                  ELSE [ui EXCEPT !.error = ErrorShown(tab, out.error)]
  /\ boundary' = Caught(tab, ui')
  /\ UNCHANGED <<tab, orphans, form, app, hist>>

\* The rest of a panel's handler, after its await: setResult of what the
\* method returned or setError of what it threw, then setLoading(false).
\* When the render of the new state throws, the ErrorBoundary catches the
\* error and shows its fallback in place of the panel; ui keeps the state
\* whose render threw.
PanelSettle(p, resp) ==
  /\ p \in pending
  /\ p.owner = "panel"
  /\ pending' = pending \ {p}
  /\ \E r \in {request(resp)} :
       \E out \in {IF p.call.sent = <<>> THEN ApiUnsent(p.call.method, p.call.args)
                   ELSE ApiSettle(p.call.method, p.call.args, r)} :
         /\ last' = Settled("panel", p.call, resp, r, out)
         /\ ui' = IF out.kind = "return"
                  THEN [ui EXCEPT !.result = out.value, !.loading = FALSE]
                  ELSE [ui EXCEPT !.error = ErrorShown(tab, out.error),
                                  !.loading = FALSE]
  /\ boundary' = Caught(tab, ui')
  /\ UNCHANGED <<tab, orphans, form, app, hist>>

\* A tab of App is clicked: setActiveTab(t) unmounts the panel and mounts
\* that of t with its initial state.  The fetch of the unmounted panel stays
\* in flight.
\* A tab bar that remounts the boundary with each panel: the tab change clears
\* the caught error and shows the newly selected panel.
SelectTabResetsBoundary(t) ==
  /\ ~app.loading
  /\ t # tab
  /\ \A p \in pending : p.owner # "direct"
  /\ \E mine \in {{p \in pending : p.owner = "panel"}} :
       /\ orphans + Cardinality(mine) <= MaxOrphans
       /\ orphans' = orphans + Cardinality(mine)
       /\ pending' = pending \ mine
  /\ tab' = t
  /\ ui' = InitialUi
  /\ boundary' = NoError
  /\ form' = IF Get(app.apiStatus, "status") # Str("offline")
             THEN InitialForm(t) ELSE <<>>
  /\ hist' = NoHist
  /\ last' = NoCall
  /\ UNCHANGED app

SelectTab(t) ==
  /\ ~app.loading
  /\ t # tab
  /\ \A p \in pending : p.owner # "direct"
  /\ \E mine \in {{p \in pending : p.owner = "panel"}} :
       /\ orphans + Cardinality(mine) <= MaxOrphans
       /\ orphans' = orphans + Cardinality(mine)
       /\ pending' = pending \ mine
  /\ tab' = t
  /\ ui' = InitialUi
  /\ form' = IF Mounted THEN InitialForm(t) ELSE <<>>
  /\ hist' = NoHist
  /\ last' = NoCall
  /\ UNCHANGED <<app, boundary>>

\* The fetch of an unmounted panel settles: the state setters of the rest of
\* its handler set nothing.
OrphanSettle ==
  /\ orphans > 0
  /\ orphans' = orphans - 1
  /\ last' = NoCall
  /\ UNCHANGED <<pending, tab, ui, form, app, hist, boundary>>

\* handleReset of the Supplier Predictor: the form's defaults, no result and
\* no error; loading is left as it is.
handleReset ==
  /\ Mounted
  /\ tab = "supplier"
  /\ form' = [formData |-> SupplierForm]
  /\ ui' = [ui EXCEPT !.result = null, !.error = null]
  /\ hist' = [afterReset |-> TRUE]
  /\ last' = NoCall
  /\ UNCHANGED <<pending, tab, orphans, app, boundary>>

\* ------------------------------------------------------------------ App

\* How the fetch of a health check settles while the panels are looked at:
\* the backend's health document or an empty one, a failure of the server,
\* or no answer.
HealthResponses ==
  {Response(200, Str("application/json"), JSONText(FullDoc("getDetailedHealth"))),
   Response(200, Str("application/json"), JSONText(EmptyObj)),
   Response(500, Str("text/html"), "Internal Server Error"),
   [kind |-> "network", message |-> "Failed to fetch"]}

\* checkAPIHealth showing the loading screen again while it checks, which
\* C21 must tell from checkAPIHealth.
checkAPIHealthShowsChecking ==
  /\ ~app.loading
  /\ Get(app.apiStatus, "status") = Str("offline")
  /\ app.checks < MaxChecks
  /\ app' = [apiStatus |-> Obj([status |-> Str("checking"), models |-> Arr(<<>>)]),
             loading |-> TRUE,
             checks |-> app.checks + 1]
  /\ pending' = pending \cup {HealthCheck(app.checks + 1)}
  /\ last' = NoCall
  /\ UNCHANGED <<tab, orphans, ui, form, hist, boundary>>

\* checkAPIHealth, up to its await, as the Retry Connection button of the
\* connection error calls it: api.getDetailedHealth() is in flight.  The
\* button is not disabled while a check is in flight.
checkAPIHealth ==
  /\ ~app.loading
  /\ Get(app.apiStatus, "status") = Str("offline")
  /\ app.checks < MaxChecks
  /\ app' = [app EXCEPT !.checks = app.checks + 1]
  /\ pending' = pending \cup {HealthCheck(app.checks + 1)}
  /\ last' = NoCall
  /\ UNCHANGED <<tab, orphans, ui, form, hist, boundary>>

\* The apiStatus the rest of checkAPIHealth sets: 'online' with
\* health.models.loaded_models || [] and health.config || {}; its catch sets
\* 'offline' when getDetailedHealth threw and when reading
\* health.models.loaded_models throws.
ApiStatusAfter(out) ==
  IF /\ out.kind = "return"
     /\ ~Nullish(out.value)
     /\ ~Nullish(Get(out.value, "models"))
  THEN Obj([status |-> Str("online"),
            models |-> Or(Get(Get(out.value, "models"), "loaded_models"), Arr(<<>>)),
            config |-> Or(Get(out.value, "config"), EmptyObj)])
  ELSE Obj([status |-> Str("offline"), models |-> Arr(<<>>)])

\* The rest of checkAPIHealth, after its await: setApiStatus, and
\* setLoading(false) in its finally.  App then renders the panel of the
\* active tab or the connection error: a panel that was shown stays mounted
\* while the status stays 'online', and is unmounted by 'offline', its fetch
\* staying in flight.  The connection error also takes the place of the
\* ErrorBoundary, which starts anew when App renders it again.
HealthSettle(p, resp) ==
  /\ p \in pending
  /\ p.owner = "app"
  /\ \E r \in {request(resp)} :
       \E out \in {getDetailedHealth(r)} :
         /\ last' = Settled("app", p.call, resp, r, out)
         /\ app' = [apiStatus |-> ApiStatusAfter(out),
                    loading |-> FALSE,
                    checks |-> IF \E q \in pending \ {p} : q.owner = "app"
                               THEN app.checks ELSE 0]
  /\ boundary' = IF Get(app'.apiStatus, "status") = Str("offline")
                 THEN NoError ELSE boundary
  /\ \E mine \in {{q \in pending : q.owner = "panel"}} :
       IF Mounted /\ Mounted'
       THEN /\ pending' = pending \ {p}
            /\ UNCHANGED <<orphans, ui, form, hist>>
       ELSE /\ orphans + Cardinality(mine) <= MaxOrphans
            /\ orphans' = orphans + Cardinality(mine)
            /\ pending' = pending \ (mine \cup {p})
            /\ ui' = InitialUi
            /\ form' = IF Mounted' THEN InitialForm(tab) ELSE <<>>
            /\ hist' = NoHist
  /\ UNCHANGED tab

\* The Try again button of the ErrorBoundary's fallback:
\* setState({hasError: false, error: null}); the ErrorBoundary renders its
\* children again, which mounts the panel of the active tab.
TryAgain ==
  /\ boundary.hasError
  /\ boundary' = NoError
  /\ ui' = InitialUi
  /\ form' = InitialForm(tab)
  /\ hist' = NoHist
  /\ last' = NoCall
  /\ UNCHANGED <<pending, tab, orphans, app>>

\* The calls of a caller other than a panel are looked at while the
\* dashboard is shown, which calls nothing itself.
Next ==
  \/ \E t \in Panels : SelectTab(t)
  \/ OrphanSettle
  \/ \E value \in Typed : handleChange(EditedField(tab), value)
  \/ SupplierSubmit
  \/ handleReset
  \/ InventorySubmit
  \/ ShipmentSubmit
  \/ \E id \in 1..MaxId : removeLocation(id)
  \/ RoutingOptimize
  \/ handleRemoveCustomer(0)
  \/ handleDepotChange("lat", "")
  \/ \E value \in {"clarke_wright", "nearest_neighbor"} : setAlgorithm(value)
  \/ CustomerRoutingOptimize
  \/ loadSampleData
  \/ \E id \in 1..MaxId : removeSupplier(id)
  \/ BatchProcess
  \/ \E p \in {q \in pending : q.owner = "panel"} :
       \E resp \in PanelResponses(p.call.method) : PanelSettle(p, resp)
  \/ tab = "dashboard" /\ Mounted /\ \E c \in DirectCalls : DirectCall(c)
  \/ tab = "dashboard" /\ Mounted /\ \E c \in DirectCalls : DirectCallUnsent(c)
  \/ \E p \in {q \in pending : q.owner = "direct"} :
       \E resp \in PanelResponses(p.call.method) : DirectSettle(p, resp)
  \/ checkAPIHealth
  \/ \E p \in {q \in pending : q.owner = "app"} :
       \E resp \in HealthResponses : HealthSettle(p, resp)
  \/ TryAgain

Spec == Init /\ [][Next]_vars

\* A step that settles a request of the mounted panel, however it is
\* answered: the network fails, or the request leaves flight and nothing but
\* the panel's result, loading and error changes with it.
PanelSettles ==
  \E p \in pending :
    \/ PanelSettle(p, [kind |-> "network", message |-> "Failed to fetch"])
    \/ /\ p.owner = "panel"
       /\ pending' = pending \ {p}
       /\ UNCHANGED <<tab, orphans, form, app, hist>>

\* Every request of a mounted panel settles in the end: the backend answers
\* it or the network fails.
SpecLive == Init /\ [][Next]_vars /\ WF_vars(PanelSettles)

\* App alone, under every answer to its health check; the panel of the
\* active tab is mounted and left alone.
NextApp ==
  \/ \E t \in Panels : SelectTab(t)
  \/ checkAPIHealth
  \/ \E p \in {q \in pending : q.owner = "app"} :
       \E resp \in Responses("getDetailedHealth", MaxFields) : HealthSettle(p, resp)

SpecApp == Init /\ [][NextApp]_vars

\* ============================================================ properties

\* The latest step settled a call whose fetch was answered with a response.
Answered == last.method # "none" /\ last.resp.kind = "response"

\* The response's content type names JSON.
SaysJSON(resp) ==
  Truthy(resp.contentType) /\ Includes(resp.contentType.s, "application/json")

\* The response's body was read, and it is the JSON text of a document.
HasJSONDoc(resp) ==
  ~resp.readFails /\ SaysJSON(resp) /\ \E p \in DocTexts : p[1] = resp.text

\* The document a response's JSON body is the text of.
DocOf(resp) == (CHOOSE p \in DocTexts : p[1] = resp.text)[2]

InvalidFormat == Obj([message |-> Str("Invalid response format")])

\* C1: for every response that is not ok, request throws an Error whose
\* status is the HTTP status code and whose data is the parsed body.
C1_NonOkThrowsStatusAndData ==
  (Answered /\ ~ResponseOk(last.resp)) =>
    /\ last.req.kind = "throw"
    /\ last.req.error.status = Num(last.resp.status)
    /\ last.req.error.data = ParseBody(last.resp)

\* C2: for an ok response request never throws; when the body was read it
\* returns the parsed JSON for a JSON content type whose body parses, {} for
\* an empty JSON body, {message: 'Invalid response format'} for a JSON body
\* that does not parse, and {message: <body text>} for any other or no
\* content type.
C2_OkBodyTolerated ==
  (Answered /\ ResponseOk(last.resp)) =>
    /\ last.req.kind = "return"
    /\ ~last.resp.readFails =>
         last.req.value =
           IF ~SaysJSON(last.resp) THEN Obj([message |-> Str(last.resp.text)])
           ELSE IF last.resp.text = "" THEN EmptyObj
           ELSE IF HasJSONDoc(last.resp) THEN DocOf(last.resp)
           ELSE InvalidFormat

\* An ok answer that says it is JSON and is not is returned as the
\* invalid-format message.
C2_Witness ==
  /\ Answered
  /\ ResponseOk(last.resp)
  /\ SaysJSON(last.resp)
  /\ last.resp.text = "Internal Server Error"
  /\ last.req = Return(InvalidFormat)

\* An entry of a detail array as C3 renders it.
C3_Rendered(err) ==
  (IF IsArray(Get(err, "loc")) THEN Join(Get(err, "loc"), ".") ELSE "field")
    \o ": " \o ToStr(Get(err, "msg"))

\* C3: for a 422 response whose body has an array detail, the message of
\* the error request throws is the entries of detail in order, each rendered
\* as '<loc joined by .>: <msg>' with 'field' for a missing loc, joined by
\* ', '.
C3_ValidationMessage ==
  (/\ Answered
   /\ last.resp.status = 422
   /\ HasJSONDoc(last.resp)
   /\ IsArray(Get(DocOf(last.resp), "detail"))) =>
    /\ last.req.kind = "throw"
    /\ LET detail == Get(DocOf(last.resp), "detail").e
       IN last.req.error.message =
            JoinStr([i \in 1..Len(detail) |-> C3_Rendered(detail[i])], ", ")

\* The default list of each method that has one; predictShipment's input
\* defaults to the method's argument.
Defaults(m, args) ==
  CASE m = "predictSupplier" ->
         [reliability_score |-> Num(0),
          confidence_interval |-> Obj([lower |-> Num(0), upper |-> Num(0)]),
          feature_importance |-> EmptyObj,
          model |-> Str("LinearRegression"),
          r2_score |-> null,
          prediction_time |-> Str("<1ms")]
    [] m = "predictShipment" ->
         [delayed |-> null, status |-> Str("Unknown"), confidence |-> Num(0),
          probability_delayed |-> Num(0), probability_ontime |-> Num(0),
          risk_level |-> Str("Unknown"), feature_importance |-> EmptyObj,
          input |-> args[1], model |-> Str("LogisticRegression")]
    [] m = "optimizeInventory" ->
         [optimal_order_quantity |-> Num(0), reorder_point |-> Num(0),
          total_cost |-> Num(0), cost_breakdown |-> EmptyObj,
          recommendations |-> Arr(<<>>), safety_stock |-> Num(0)]
    [] m = "getModelsInfo" ->
         [models |-> EmptyObj, total_models |-> Num(0), status |-> Str("unknown")]
    [] OTHER ->
         [status |-> Str("unknown"), message |-> Str("Models reloaded"),
          reloaded |-> Arr(<<>>)]

DefaultingMethods ==
  {"predictSupplier", "predictShipment", "optimizeInventory", "getModelsInfo",
   "reloadModels"}

\* The latest step settled a call of method m that was answered ok with a
\* JSON object.
OkObject(m) ==
  /\ Answered
  /\ last.method = m
  /\ ResponseOk(last.resp)
  /\ HasJSONDoc(last.resp)
  /\ DocOf(last.resp).t = "object"

ListField(m) ==
  CASE m = "batchEvaluateSuppliers" -> "results"
    [] m = "forecastInventory" -> "forecast"
    [] OTHER -> "recommendations"

\* C6: for any ok response, batchEvaluateSuppliers returns an object whose
\* results is an array, forecastInventory one whose forecast is an array and
\* optimizeInventory one whose recommendations is an array.
C6_ListFieldsAreArrays ==
  (/\ Answered
   /\ ResponseOk(last.resp)
   /\ last.method \in {"batchEvaluateSuppliers", "forecastInventory",
                       "optimizeInventory"}) =>
    /\ last.out.kind = "return"
    /\ IsArray(Get(last.out.value, ListField(last.method)))

\* A location with the validated structure.
C7_ValidLocation(loc) ==
  loc.t = "object" /\ {"lat", "lon", "name", "demand"} \subseteq DOMAIN loc.f

\* A route with the validated structure.
C7_ValidRoute(route) ==
  /\ route.t = "object"
  /\ ~Nullish(Get(route, "vehicle_id"))
  /\ IsArray(Get(route, "locations"))
  /\ \A i \in 1..Len(Get(route, "locations").e) :
       C7_ValidLocation(Get(route, "locations").e[i])
  /\ ~Nullish(Get(route, "total_distance"))
  /\ ~Nullish(Get(route, "total_demand"))

\* C7: for any ok response, optimizeRouting returns an object whose routes
\* is an array of routes with the validated structure.
C7_RoutesValidated ==
  (Answered /\ ResponseOk(last.resp) /\ last.method = "optimizeRouting") =>
    /\ last.out.kind = "return"
    /\ IsArray(Get(last.out.value, "routes"))
    /\ \A i \in 1..Len(Get(last.out.value, "routes").e) :
         C7_ValidRoute(Get(last.out.value, "routes").e[i])

\* The REST contract: the HTTP method and the path of each client method.
RestContract(m) ==
  CASE m = "getHealth" -> <<"GET", "/">>
    [] m = "getDetailedHealth" -> <<"GET", "/health">>
    [] m = "predictSupplier" -> <<"POST", "/api/v1/predict/supplier">>
    [] m = "optimizeInventory" -> <<"POST", "/api/v1/optimize/inventory">>
    [] m = "predictShipment" -> <<"POST", "/api/v1/predict/shipment">>
    [] m = "optimizeRouting" -> <<"POST", "/api/v1/optimize/routing">>
    [] m = "batchEvaluateSuppliers" -> <<"POST", "/api/v1/batch/suppliers">>
    [] m = "getModelsInfo" -> <<"GET", "/api/v1/models/info">>
    [] OTHER -> <<"POST", "/api/v1/models/reload">>

ContractMethods == Methods \ {"forecastInventory"}

\* The POSTs that carry a body.
BodyMethods ==
  {"predictSupplier", "optimizeInventory", "predictShipment", "optimizeRouting",
   "batchEvaluateSuppliers"}

\* The calls in flight, and the call the latest step settled.
Calls ==
  {p.call : p \in pending}
  \cup (IF last.method = "none" THEN {}
        ELSE {[method |-> last.method, args |-> last.args, sent |-> last.sent]})

\* The call issued one request, that of the contract, with the body.
Issues(c, body) ==
  /\ Len(c.sent) = 1
  /\ c.sent[1].method = RestContract(c.method)[1]
  /\ c.sent[1].url = baseURL \o RestContract(c.method)[2]
  /\ c.sent[1].body = body

\* C8, as stated: every call of a method of the contract issues exactly the
\* contract's request, and every POST except reloadModels carries the JSON
\* text of its argument.
C8_AsStated ==
  \A c \in Calls :
    c.method \in ContractMethods =>
      Issues(c, IF c.method \in BodyMethods THEN JSONstringify(c.args[1])
                ELSE undefined)

\* The calls that throw before they issue a request: batchEvaluateSuppliers
\* of an argument that is no array, and optimizeRouting of an argument with
\* a null customer.
C8_IssuesNothing(c) ==
  \/ c.method = "batchEvaluateSuppliers" /\ ~IsArray(c.args[1])
  \/ /\ c.method = "optimizeRouting"
     /\ IsArray(Get(c.args[1], "customers"))
     /\ \E i \in 1..Len(Get(c.args[1], "customers").e) :
          Nullish(Get(c.args[1], "customers").e[i])

\* C8, amended: a call of a method of the contract issues the contract's
\* request and no other, unless it throws before it issues one; the POSTs
\* except reloadModels carry the JSON text of their argument, optimizeRouting
\* that of the payload it builds from its argument.
C8_RequestsOfContract ==
  \A c \in Calls :
    c.method \in ContractMethods =>
      IF C8_IssuesNothing(c) THEN c.sent = <<>>
      ELSE Issues(c, IF c.method = "optimizeRouting"
                     THEN JSONstringify(fixedData(c.args[1]).value)
                     ELSE IF c.method \in BodyMethods
                     THEN JSONstringify(c.args[1])
                     ELSE undefined)

\* optimizeRouting is in flight with locations given as pairs: the body
\* lists them as objects.
C8_Witness ==
  \E p \in pending :
    /\ p.call.method = "optimizeRouting"
    /\ p.call.args[1] = Obj([locations |-> Arr(<<Arr(<<Num(40), Num(-74)>>)>>)])
    /\ p.call.sent[1].body = Str("{\"locations\":[{\"lat\":40,\"lon\":-74}]}")

\* The fixed prefix of each method's error message.
Prefix(m) ==
  CASE m = "getHealth" -> "Health check failed: "
    [] m = "getDetailedHealth" -> "Detailed health check failed: "
    [] m = "predictSupplier" -> "Supplier prediction failed: "
    [] m = "forecastInventory" -> "Inventory forecast failed: "
    [] m = "predictShipment" -> "Shipment prediction failed: "
    [] m = "optimizeInventory" -> "Inventory optimization failed: "
    [] m = "batchEvaluateSuppliers" -> "Batch supplier evaluation failed: "
    [] m = "getModelsInfo" -> "Failed to get models info: "
    [] OTHER -> "Failed to reload models: "

\* C4: when the request inside a method other than optimizeRouting fails,
\* the method throws an Error whose message is the method's prefix followed
\* by the message of the request's error, and a panel that called the method
\* has exactly that string as its error.
C4_FailureReachesPanel ==
  (/\ last.method \in Methods \ {"optimizeRouting"}
   /\ last.req.kind = "throw") =>
    /\ last.out.kind = "throw"
    /\ last.out.error.name = "Error"
    /\ last.out.error.message = Prefix(last.method) \o last.req.error.message
    /\ last.owner = "panel" => ui.error = Str(last.out.error.message)

\* The Supplier Predictor's call was answered 404 "Not found", and the
\* panel shows the prefixed message.
C4_Witness ==
  /\ Answered
  /\ last.owner = "panel"
  /\ last.method = "predictSupplier"
  /\ last.resp.status = 404
  /\ last.req.kind = "throw"
  /\ ui.error = Str("Supplier prediction failed: Not found")

\* C9: the body of every routing request a Vehicle Router has in flight
\* holds a depot, a customers array and an algorithm.
C9_RouterBodyOfContract ==
  \A p \in pending :
    (p.owner = "panel" /\ p.call.method = "optimizeRouting") =>
      \A i \in 1..Len(p.call.sent) :
        /\ Includes(p.call.sent[i].body.s, "\"depot\":{")
        /\ Includes(p.call.sent[i].body.s, "\"customers\":[")
        /\ Includes(p.call.sent[i].body.s, "\"algorithm\":\"")

\* C10: after the Inventory Optimizer's call was answered ok with a JSON
\* object, every member the panel dereferences is non-null in what
\* optimizeInventory returned, and rendering the result does not throw.
C10_InventoryResultRenders ==
  (OkObject("optimizeInventory") /\ last.owner = "panel") =>
    /\ last.out.kind = "return"
    /\ \A k \in Dereferenced : ~Nullish(Get(last.out.value, k))
    /\ ~InventoryRenderThrows(ui)

\* ----------------------------------------------------------- health checks

\* C11: the frontend checks the backend's health by itself after a failed
\* request: when a panel's request has failed, a health check is in flight.
C11_CheckAfterFailedRequest ==
  (last.method # "none" /\ last.owner = "panel" /\ last.out.kind = "throw") =>
    \E p \in pending : p.owner = "app"

\* ------------------------------------------------------------ the panels

\* The requests of the mounted panel that are in flight.
Outstanding == {p \in pending : p.owner = "panel"}

\* C12: a submit of a panel issues exactly one request and nothing retries
\* it: while the panel is loading exactly one request of it is in flight,
\* which is one fetch; otherwise none is, also right after a request of it
\* settled.  A mounted panel never has two requests in flight.
C12_OneRequestPerSubmit ==
  /\ Cardinality(Outstanding) <= 1
  /\ \A p \in Outstanding : Len(p.call.sent) = 1
  /\ ui.loading => Cardinality(Outstanding) = 1
  /\ (last.method # "none" /\ last.owner = "panel") => Outstanding = {}

\* The Inventory Optimizer's submit is disabled while its one request is in
\* flight.
C12_Witness ==
  /\ tab = "inventory"
  /\ ui.loading
  /\ \E p \in Outstanding :
       p.call.method = "optimizeInventory" /\ Len(p.call.sent) = 1

\* ------------------------------------------------------ batch evaluation

\* C13: batchEvaluateSuppliers called with an argument that is no array
\* sends no request and throws an Error with the message 'Batch supplier
\* evaluation failed: Suppliers must be an array'.
C13_NonArrayBatchSendsNothing ==
  /\ \A p \in pending :
       p.call.method = "batchEvaluateSuppliers" => IsArray(p.call.args[1])
  /\ (last.method = "batchEvaluateSuppliers" /\ ~IsArray(last.args[1])) =>
       /\ last.sent = <<>>
       /\ last.resp = NoResponse
       /\ last.out =
            Throw(Err("Error",
                      "Batch supplier evaluation failed: Suppliers must be an array"))

\* batchEvaluateSuppliers(null) has thrown without a fetch.
C13_Witness ==
  /\ last.method = "batchEvaluateSuppliers"
  /\ last.args[1] = null
  /\ last.sent = <<>>
  /\ last.out.kind = "throw"

\* C14: in every panel loading is true exactly while a request of the panel
\* is in flight, from its submit until it settles, whether it succeeds or
\* fails; when every request settles in the end, a panel that is loading
\* stops loading in the end.
C14_LoadingWhileInFlight ==
  /\ [](ui.loading <=> Outstanding # {})
  /\ [](last.method # "none" /\ last.owner = "panel" => ~ui.loading)
  /\ (ui.loading ~> ~ui.loading)

\* The Shipment Predictor's request has failed and the panel has stopped
\* loading.
C14_Witness ==
  /\ tab = "shipment"
  /\ last.method = "predictShipment"
  /\ last.owner = "panel"
  /\ last.out.kind = "throw"
  /\ ~ui.loading
  /\ Outstanding = {}

\* ------------------------------------------------------------------ App

\* The latest step settled a health check of App whose response was ok.
HealthAnsweredOk ==
  /\ last.method # "none"
  /\ last.owner = "app"
  /\ last.resp.kind = "response"
  /\ ResponseOk(last.resp)

\* C15: whenever a health check gets an ok response, apiStatus.status
\* becomes 'online' and apiStatus.models the response's loaded models, or
\* the empty list when it has none.
C15_OkHealthGoesOnline ==
  HealthAnsweredOk =>
    /\ last.req.kind = "return"
    /\ Get(app.apiStatus, "status") = Str("online")
    /\ Get(app.apiStatus, "models") =
         Or(GetOpt(GetOpt(last.req.value, "models"), "loaded_models"), Arr(<<>>))

\* C16: the apiStatus is that of the health check started last: a health
\* check that settles after one started later than it has settled leaves
\* the apiStatus as that later check set it.
C16_LatestCheckWins ==
  [][\A p \in pending :
       (/\ p.owner = "app"
        /\ p \notin pending'
        /\ \E later \in (p.seq + 1)..app.checks : HealthCheck(later) \notin pending)
         => app'.apiStatus = app.apiStatus]_vars

\* ----------------------------------------------------- result and error

\* C17: in the Supplier Predictor result and error are never both set,
\* across submit, response, failure and reset.
C17_SupplierResultOrError ==
  tab = "supplier" => (Nullish(ui.result) \/ Nullish(ui.error))

\* The Supplier Predictor's request has failed: it shows the error and no
\* result.
C17_Witness ==
  /\ tab = "supplier"
  /\ last.method = "predictSupplier"
  /\ last.owner = "panel"
  /\ last.out.kind = "throw"
  /\ ~Nullish(ui.error)
  /\ Nullish(ui.result)

\* C18: in the Inventory Optimizer, the Shipment Predictor, the Vehicle
\* Router and the Batch Processor result and error are never both set while
\* loading is false.
C18_ResultOrErrorWhenIdle ==
  (tab \in {"inventory", "shipment", "routing", "customerRouting", "batch"}
     /\ ~ui.loading) =>
    (Nullish(ui.result) \/ Nullish(ui.error))

\* C19: after Reset in the Supplier Predictor result and error stay null
\* until the next submit, also when Reset is pressed while a request is in
\* flight.
C19_ResetStaysClear ==
  (tab = "supplier" /\ hist.afterReset) =>
    (ui.result = null /\ ui.error = null)

\* ---------------------------------------------------------- while offline

\* App shows its connection error.
Offline == ~app.loading /\ Get(app.apiStatus, "status") = Str("offline")

Status == Get(app.apiStatus, "status")

\* C21: App starts with loading true and the status 'checking', and stays so
\* while its first health check is in flight; once that check has settled,
\* loading is false for good and the status is 'online' or 'offline' and
\* never 'checking' again, also while the checks of Retry Connection are in
\* flight.
C21_CheckingOnlyAtFirst ==
  /\ app.loading /\ Status = Str("checking")
  /\ [](app.loading <=> HealthCheck(1) \in pending /\ app.checks = 1
                          /\ Status = Str("checking"))
  /\ [](~app.loading => Status \in {Str("online"), Str("offline")})
  /\ [][~app.loading => ~app'.loading]_vars

\* Two checks of Retry Connection are in flight and App still shows the
\* connection error, not the loading screen.
C21_Witness ==
  /\ ~app.loading
  /\ Status = Str("offline")
  /\ app.checks = 2
  /\ HealthCheck(1) \in pending
  /\ HealthCheck(2) \in pending

\* ---------------------------------------------------------------------------
\* C22 (as the code behaves). Once the ErrorBoundary has caught a rendering
\* error, hasError is cleared only by 'Try again' or by the app going offline
\* (the connection error replaces the boundary, and the boundary mounted on a
\* later reconnect starts with hasError false); hasError is set only by a
\* render error of the displayed panel; a tab change leaves the boundary
\* unchanged, and while the fallback is shown the newly selected tab's panel
\* is not displayed (no panel form exists and no request is started).
C22_FallbackUntilTryAgainOrOffline ==
  /\ [][boundary.hasError /\ ~boundary'.hasError
          => TryAgain \/ Get(app'.apiStatus, "status") = Str("offline")]_vars
  /\ [][~boundary.hasError /\ boundary'.hasError
          => tab' = tab /\ RenderThrows(tab, ui')
             /\ boundary'.error = RenderError(ui')]_vars
  /\ [][tab' # tab
          => /\ boundary' = boundary
             /\ boundary.hasError
                  => form' = <<>> /\ ui' = InitialUi /\ pending' \subseteq pending]_vars
  /\ [](boundary.hasError => ~Mounted /\ \A p \in pending : p.owner # "panel")

\* The fallback is shown and another tab than the one whose panel crashed has
\* been selected.
C22_Witness ==
  /\ boundary.hasError
  /\ tab # "inventory"
  /\ form = <<>>
  /\ Get(app.apiStatus, "status") = Str("online")

\* C22 (as stated). hasError is reset only by 'Try again'.
C22_ResetOnlyByTryAgain ==
  [][boundary.hasError /\ ~boundary'.hasError => TryAgain]_vars

\* ---------------------------------------------------------------------------
\* The submit handlers of the two routers and of the Batch Processor, as
\* functions of the component's state.  Their buttons are disabled while the
\* list is too short, so RoutingOptimize, CustomerRoutingOptimize and
\* BatchProcess (the button presses) never take the refusing branch; here the
\* handler is called whatever the list holds.

\* A refusal that raises the loading flag before it returns.
RefuseSetsLoading(message) ==
  /\ ui' = [ui EXCEPT !.error = Str(message), !.loading = TRUE]
  /\ last' = NoCall
  /\ hist' = NoHist
  /\ UNCHANGED <<pending, tab, orphans, form, app, boundary>>

\* setError(message); return;
Refuse(message) ==
  /\ ui' = [ui EXCEPT !.error = Str(message)]
  /\ last' = NoCall
  /\ hist' = NoHist
  /\ UNCHANGED <<pending, tab, orphans, form, app, boundary>>

TooFewLocations == "Please add at least 2 locations"
TooFewCustomers == "Please add at least one customer location"
TooFewSuppliers == "Please add at least one supplier"

VehicleRouterHandleOptimize ==
  /\ Mounted
  /\ tab = "routing"
  /\ IF Len(form.locations.e) < 2
     THEN Refuse(TooFewLocations)
     ELSE StartCall("optimizeRouting", <<routeData(form.locations)>>, FALSE)

handleOptimize ==
  /\ Mounted
  /\ tab = "customerRouting"
  /\ IF Len(form.customers.e) = 0
     THEN Refuse(TooFewCustomers)
     ELSE StartCall("optimizeRouting",
                    <<routingData(form.depot, form.customers, form.algorithm)>>,
                    FALSE)

handleBatchProcess ==
  /\ Mounted
  /\ tab = "batch"
  /\ IF Len(form.suppliers.e) = 0
     THEN Refuse(TooFewSuppliers)
     ELSE StartCall("batchEvaluateSuppliers",
                    <<suppliersData(form.suppliers)>>, FALSE)

ListPanels == {"routing", "customerRouting", "batch"}

NextHandlers ==
  \/ \E t \in ListPanels : SelectTab(t)
  \/ OrphanSettle
  \/ \E id \in 1..MaxId : removeLocation(id)
  \/ VehicleRouterHandleOptimize
  \/ handleRemoveCustomer(0)
  \/ handleOptimize
  \/ loadSampleData
  \/ \E id \in 1..MaxId : removeSupplier(id)
  \/ \E newSupplier \in NewSuppliers, now \in Clock : addSupplier(newSupplier, now)
  \/ handleBatchProcess
  \/ \E p \in {q \in pending : q.owner = "panel"} :
       \E resp \in PanelResponses(p.call.method) : PanelSettle(p, resp)
  \/ \E p \in {q \in pending : q.owner = "app"} :
       \E resp \in HealthResponses : HealthSettle(p, resp)

SpecHandlers == Init /\ [][NextHandlers]_vars

\* The list a panel's submit handler measures, and the message it refuses with.
TooLittle ==
  CASE tab = "routing" -> Len(form.locations.e) < 2
    [] tab = "customerRouting" -> Len(form.customers.e) = 0
    [] tab = "batch" -> Len(form.suppliers.e) = 0
    [] OTHER -> FALSE

RefusalOf(t) ==
  CASE t = "routing" -> Str(TooFewLocations)
    [] t = "customerRouting" -> Str(TooFewCustomers)
    [] t = "batch" -> Str(TooFewSuppliers)
    [] OTHER -> null

\* C23. A submit with too little input sends no request and leaves loading and
\* result as they were (loading false when no request was outstanding), and
\* sets the panel's message: 'Please add at least 2 locations' for the
\* locations router with fewer than 2 locations, 'Please add at least one
\* customer location' for the Vehicle Router with no customers, 'Please add at
\* least one supplier' for the Batch Processor with no suppliers.  A submit is
\* a step of the panel's handler: the tab stays, and either a request is added
\* or nothing but the panel's messages changes while the list is too short.
C23_TooLittleInputSendsNothing ==
  /\ [][(VehicleRouterHandleOptimize \/ handleOptimize \/ handleBatchProcess)
          /\ Mounted /\ TooLittle
          => /\ pending' = pending
             /\ orphans' = orphans
             /\ ui'.loading = ui.loading
             /\ ui'.result = ui.result
             /\ ui'.error = RefusalOf(tab)
             /\ form' = form]_vars
  /\ [](Mounted /\ tab \in ListPanels /\ ui.error \in {RefusalOf(t) : t \in ListPanels}
          => ui.error = RefusalOf(tab))
  /\ [](Mounted /\ TooLittle /\ (\A p \in pending : p.owner # "panel")
          => ~ui.loading)

\* The Batch Processor has refused an empty list: its message is shown, nothing
\* is in flight and loading is false.
C23_Witness ==
  /\ Mounted
  /\ tab = "batch"
  /\ Len(form.suppliers.e) = 0
  /\ ui = [result |-> null, loading |-> FALSE, error |-> Str(TooFewSuppliers)]
  /\ pending = {}

\* ---------------------------------------------------------------------------
\* The entry the batch request carries for a row of the supplier list.
EntryOf(row, entry) ==
  /\ entry.t = "object"
  /\ DOMAIN entry.f = {"supplier_name", "lead_time", "cost", "past_orders"}
  /\ Get(entry, "supplier_name") = Get(row, "name")
  /\ \A k \in {"lead_time", "cost", "past_orders"} : Get(entry, k) = Get(row, k)

\* C24. The batch request built by the Batch Processor has one entry per
\* listed supplier in list order, each entry carrying supplier_name (the
\* row's name), lead_time, cost and past_orders and neither id nor name; that
\* array is what is posted to /api/v1/batch/suppliers, and the supplier list
\* itself is left unchanged by the submit.
C24_BatchRequestFromList ==
  [][\A p \in pending' \ pending :
       p.owner = "panel" /\ p.call.method = "batchEvaluateSuppliers"
       => LET data == p.call.args[1]
              rows == form.suppliers.e
          IN /\ IsArray(data)
             /\ Len(data.e) = Len(rows)
             /\ \A i \in 1..Len(rows) : EntryOf(rows[i], data.e[i])
             /\ p.call.sent = <<Fetch("/api/v1/batch/suppliers", PostJSON(data))>>
             /\ form' = form
             /\ \A i \in 1..Len(rows) :
                  DOMAIN rows[i].f =
                    {"id", "name", "lead_time", "cost", "past_orders"}]_vars

\* A batch request is in flight for a list of two sample rows followed by an
\* added row whose lead time did not parse, and the list is still as it was
\* submitted.
C24_Witness ==
  /\ tab = "batch"
  /\ ui.loading
  /\ Len(form.suppliers.e) = 3
  /\ Get(form.suppliers.e[1], "name") = Str("Supplier C")
  /\ Get(form.suppliers.e[3], "name") = Str("New")
  /\ Get(form.suppliers.e[3], "lead_time") = NaN
  /\ \E p \in pending :
       /\ p.owner = "panel"
       /\ p.call.method = "batchEvaluateSuppliers"
       /\ Len(p.call.args[1].e) = 3
       /\ Get(p.call.args[1].e[1], "supplier_name") = Str("Supplier C")
       /\ Get(p.call.args[1].e[3], "supplier_name") = Str("New")
       /\ Get(p.call.args[1].e[3], "lead_time") = NaN
       /\ "id" \notin DOMAIN p.call.args[1].e[3].f

====
